---- MODULE Spec2Model ----
(***************************************************************************)
(* Model of the "Create order" page controller                             *)
(* admin-dev/themes/new-theme/js/pages/order/create/create-order-page.js   *)
(*                                                                         *)
(* The controller owns three fields (cartId, customerId, timeoutId), binds *)
(* delegated DOM listeners on one container, subscribes to the cart events *)
(* of the EventEmitter and delegates all work to collaborators.  Calls to  *)
(* collaborators made by the handler that ran last are recorded, in order, *)
(* in the variable calls, each as a tuple <<"object.method", args...>>.    *)
(***************************************************************************)
EXTENDS Integers, Sequences, FiniteSets, TLC

\* null / undefined (constructor: this.cartId = null; timeoutId is never set there)
NULL == 0

\* setTimeout(..., 300)
Delay == 300

\* ---- bounds of the model ------------------------------------------------
\* longest address array drawn for validateSelectedAddresses
MaxLen == 3
\* clock ticks per debounce delay (time resolution of the model)
TicksPerDelay == 6
\* events in a row on one input that are counted
MaxBurst == 3
\* longest address array of a cart in the address repair chain
MaxRepairLen == 2

VARIABLES
  cartId,          \* this.cartId
  customerId,      \* this.customerId
  timeoutId,       \* this.timeoutId
  timers,          \* pending browser timers created by setTimeout
  inputVal,        \* DOM value of the three search inputs
  currencySelect,  \* DOM value of createOrderMap.cartCurrencySelect
  languageSelect,  \* DOM value of createOrderMap.cartLanguageSelect
  event,           \* the event whose listener ran last ("" when none did)
  calls,           \* collaborator calls made by the last handler, in order
  published,       \* payload of the last EventEmitter event, as published
  payload,         \* the same payload object after the handler returned
  lastEvt,         \* history: the last debounced input event [input, value]
  sinceLast,       \* history: time elapsed since lastEvt (capped at Delay)
  nDisp,           \* history: search dispatches since lastEvt
  cancelled,       \* history: callback cancelled by the last input event
  burst,           \* history: events in a row on one input, each within Delay
  stopped,         \* history: stopSearching was called since lastEvt
  selecting,       \* history: the found cart rule the mouse went down on
  loadedCartId,    \* history: cartId of the last cartLoaded payload handled
  sinceSelect,     \* history: a cartLoaded was handled after the last selection
  failedSince,     \* history: a currency change failed after the last success
  alertShown,      \* productRenderer: the cart block error alert is displayed
  vAddresses,      \* validator harness: the array object passed
  vArg,            \* validator harness: its content when the call was made
  vResult,         \* validator harness: the value returned
  vpc              \* validator harness: "ready" | "done"

ctlVars == <<cartId, customerId, timeoutId>>
domVars == <<inputVal, currencySelect, languageSelect>>
busVars == <<published, payload>>
histVars == <<lastEvt, sinceLast, nDisp, cancelled, burst, stopped, selecting>>
pageHist == <<loadedCartId, sinceSelect, failedSince, alertShown>>
valVars == <<vAddresses, vArg, vResult, vpc>>
vars == <<cartId, customerId, timeoutId, timers, inputVal, currencySelect,
          languageSelect, event, calls, published, payload, lastEvt, sinceLast,
          nDisp, cancelled, burst, stopped, selecting, loadedCartId,
          sinceSelect, failedSince, alertShown,
          vAddresses, vArg, vResult, vpc>>

\* ---- address records ------------------------------------------------------
\* values of the delivery and invoice properties of an address record, by
\* name: the booleans and a property that is not there
JsFlags == {"true", "false", "undefined"}

\* ToBoolean, as applied by if (...)
Truthy(v) == v \notin {"false", "undefined", "null", "0", "NaN", ""}

Address == [delivery : JsFlags, invoice : JsFlags]

RECURSIVE SeqsUpTo(_, _)
SeqsUpTo(S, n) ==
  IF n = 0 THEN {<<>>}
  ELSE LET shorter == SeqsUpTo(S, n - 1)
       IN shorter \cup {Append(s, x) : s \in {t \in shorter : Len(t) = n - 1}, x \in S}

AddressLists == SeqsUpTo(Address, MaxLen)

\* ---- validateSelectedAddresses (lines 78-95) ------------------------------
\* (mutant) the invoice test reads the delivery flag
ValidateIterCopyPaste(st, key) ==
  LET address == st.addresses[key]
  IN [addresses |-> st.addresses,
      deliveryValid |-> IF Truthy(address.delivery) THEN TRUE ELSE st.deliveryValid,
      invoiceValid |-> IF Truthy(address.delivery) THEN TRUE ELSE st.invoiceValid]

\* (mutant) the flags are assigned from the record instead of latched
ValidateIterAssign(st, key) ==
  LET address == st.addresses[key]
  IN [addresses |-> st.addresses,
      deliveryValid |-> Truthy(address.delivery),
      invoiceValid |-> Truthy(address.invoice)]

\* One pass of the body of "for (const key in addresses)".  The loop state
\* carries the array itself, so that a write to a record would be visible.
ValidateIter(st, key) ==
  LET address == st.addresses[key]
  IN [addresses |-> st.addresses,
      deliveryValid |-> IF Truthy(address.delivery) THEN TRUE ELSE st.deliveryValid,
      invoiceValid |-> IF Truthy(address.invoice) THEN TRUE ELSE st.invoiceValid]

\* for..in over an array visits its index keys in ascending order
RECURSIVE ValidateLoop(_, _)
ValidateLoop(st, key) ==
  IF key > Len(st.addresses) THEN st
  ELSE ValidateLoop(ValidateIter(st, key), key + 1)

ValidateRun(addresses) ==
  ValidateLoop([addresses |-> addresses, deliveryValid |-> FALSE,
                invoiceValid |-> FALSE], 1)

validateSelectedAddresses(addresses) ==
  LET st == ValidateRun(addresses)
  IN st.deliveryValid /\ st.invoiceValid

\* ---- initial state --------------------------------------------------------
Inputs == {"customer", "product", "cartRule"}
NoEvt == [input |-> "", value |-> ""]
NoneCancelled == [fn |-> "", after |-> 0]
NoPayload == [type |-> "none"]
NoSelection == [rule |-> NULL, clicked |-> FALSE]

InitPage ==
  /\ cartId = NULL
  /\ customerId = NULL
  /\ timeoutId = NULL
  /\ timers = {}
  /\ inputVal = [i \in Inputs |-> ""]
  /\ currencySelect = NULL
  /\ languageSelect = NULL
  /\ event = ""
  /\ calls = <<>>
  /\ published = NoPayload
  /\ payload = NoPayload
  /\ lastEvt = NoEvt
  /\ sinceLast = 0
  /\ nDisp = 0
  /\ cancelled = NoneCancelled
  /\ burst = 0
  /\ stopped = FALSE
  /\ selecting = NoSelection
  /\ loadedCartId = NULL
  /\ sinceSelect = FALSE
  /\ failedSince = FALSE
  /\ alertShown = FALSE

\* the handler that runs was not called by the EventEmitter
NoBusEvent ==
  /\ published' = NoPayload
  /\ payload' = NoPayload

\* the cart block error alert after the calls made, shown being its state
\* before: renderCartBlockErrorAlert displays it, cleanCartBlockAlerts hides
\* it, no other call touches it
AlertAfter(shown, made) ==
  LET on == {k \in 1..Len(made) :
               made[k][1] \in {"productRenderer.renderCartBlockErrorAlert",
                               "productRenderer.cleanCartBlockAlerts"}}
  IN IF on = {} THEN shown
     ELSE LET last == CHOOSE k \in on : \A j \in on : j <= k
          IN made[last][1] = "productRenderer.renderCartBlockErrorAlert"

\* bookkeeping of the handler that ran: which cart the last cartLoaded event
\* carried, whether one was handled since the customer was last selected,
\* whether a currency change failed since the last that succeeded, and what
\* the calls made did to the alert
NotePage ==
  /\ failedSince' = IF event' = "cartCurrencyChangeFailed" THEN TRUE
                     ELSE IF event' = "cartCurrencyChanged" THEN FALSE
                     ELSE failedSince
  /\ alertShown' = AlertAfter(alertShown, calls')
  /\ loadedCartId' = IF event' = "cartLoaded" THEN published'.cartId
                      ELSE loadedCartId
  /\ sinceSelect' = IF event' = "cartLoaded" THEN TRUE
                     ELSE IF event' = "click chooseCustomerBtn" THEN FALSE
                     ELSE sinceSelect

\* ---- browser timers (setTimeout / clearTimeout) --------------------------
\* length of one clock tick
TimeStep == Delay \div TicksPerDelay

\* values typed into the search inputs
Phrases == {"a", "b"}
\* on the page the user empties the inputs
PagePhrases == {""}

Min(S) == CHOOSE x \in S : \A y \in S : x <= y

TimerIds(ts) == {t.id : t \in ts}

\* the handle setTimeout returns: a positive integer naming no pending timer
\* (and, to keep handles apart, not the handle the controller still holds)
NewTimerId(ts, held) ==
  Min({n \in 1..(Cardinality(ts) + 2) : n \notin TimerIds(ts) \cup {held}})

\* clearTimeout(id): no effect when id names no pending timer
ClearTimeout(ts, id) == {t \in ts : t.id # id}

\* setTimeout(cb, Delay)
SetTimeout(ts, id, cb) == ts \cup {[id |-> id, remaining |-> Delay, cb |-> cb]}

\* the arrow functions handed to setTimeout.  reads names the input whose DOM
\* value the callback reads when it runs; searchPhrase is the constant the
\* closure captured when it was created.
\* () => this.customerManager.search($(event.currentTarget).val())
CustomerSearchCallback ==
  [fn |-> "customerManager.search", reads |-> "customer", searchPhrase |-> ""]
\* () => this.cartRuleManager.search(searchPhrase)
CartRuleSearchCallback(searchPhrase) ==
  [fn |-> "cartRuleManager.search", reads |-> "", searchPhrase |-> searchPhrase]
\* () => this.productManager.search(searchPhrase)
ProductSearchCallback(searchPhrase) ==
  [fn |-> "productManager.search", reads |-> "", searchPhrase |-> searchPhrase]

\* the call a callback makes when the timer runs it
RunCallback(cb) ==
  <<cb.fn, IF cb.reads # "" THEN inputVal[cb.reads] ELSE cb.searchPhrase>>

\* (mutant) the pending timer is not cleared before the new one is set
DebounceNoClear(cb) ==
  LET id == NewTimerId(timers, timeoutId)
  IN /\ timers' = SetTimeout(timers, id, cb)
     /\ timeoutId' = id

\* clearTimeout(this.timeoutId); this.timeoutId = setTimeout(cb, 300)
Debounce(cb) ==
  LET cleared == ClearTimeout(timers, timeoutId)
      id == NewTimerId(cleared, timeoutId)
  IN /\ timers' = SetTimeout(cleared, id, cb)
     /\ timeoutId' = id

\* 'input' on customerSearchInput: the user's edit leaves value in the input
_initCustomerSearch(value) ==
  /\ event' = "input customerSearchInput"
  /\ inputVal' = [inputVal EXCEPT !["customer"] = value]
  /\ Debounce(CustomerSearchCallback)
  /\ calls' = <<>>
  /\ NoBusEvent
  /\ UNCHANGED <<cartId, customerId, currencySelect, languageSelect, valVars>>

\* 'input' on cartRuleSearchInput
_initCartRuleSearch(value) ==
  /\ event' = "input cartRuleSearchInput"
  /\ inputVal' = [inputVal EXCEPT !["cartRule"] = value]
  /\ LET searchPhrase == inputVal'["cartRule"]
     IN Debounce(CartRuleSearchCallback(searchPhrase))
  /\ calls' = <<>>
  /\ NoBusEvent
  /\ UNCHANGED <<cartId, customerId, currencySelect, languageSelect, valVars>>

\* 'input' on productSearch
_initProductSearch(value) ==
  /\ event' = "input productSearch"
  /\ inputVal' = [inputVal EXCEPT !["product"] = value]
  /\ LET searchPhrase == inputVal'["product"]
     IN Debounce(ProductSearchCallback(searchPhrase))
  /\ calls' = <<>>
  /\ NoBusEvent
  /\ UNCHANGED <<cartId, customerId, currencySelect, languageSelect, valVars>>

\* (mutant) the callback's timer also forgets the handle
TimerFireClearsHandle ==
  \E t \in timers :
    /\ t.remaining = 0
    /\ timers' = timers \ {t}
    /\ timeoutId' = NULL
    /\ event' = "timeout"
    /\ calls' = <<RunCallback(t.cb)>>
    /\ NoBusEvent
    /\ UNCHANGED <<cartId, customerId, domVars, valVars>>

\* a timer whose delay has elapsed runs its callback
TimerFire ==
  \E t \in timers :
    /\ t.remaining = 0
    /\ timers' = timers \ {t}
    /\ event' = "timeout"
    /\ calls' = <<RunCallback(t.cb)>>
    /\ NoBusEvent
    /\ UNCHANGED <<ctlVars, domVars, valVars>>

\* the time that passes in a tick of length d: d, or less when a timer falls
\* due sooner
Elapsed(d) == Min({d} \cup {t.remaining : t \in timers})

\* time passes; a due timer runs before time moves on
Tick(d) ==
  /\ \A t \in timers : t.remaining > 0
  /\ timers' = {[t EXCEPT !.remaining = @ - Elapsed(d)] : t \in timers}
  /\ event' = ""
  /\ calls' = <<>>
  /\ NoBusEvent
  /\ UNCHANGED <<ctlVars, domVars, valVars>>

\* a handler that only calls collaborators
DomCalls(name, made) ==
  /\ event' = name
  /\ calls' = made
  /\ NoBusEvent
  /\ UNCHANGED <<ctlVars, timers, domVars, valVars>>

\* (mutant) the blur handler also cancels the pending search
stopSearchingClearsTimeout ==
  /\ event' = "blur cartRuleSearchInput"
  /\ calls' = << <<"cartRuleManager.stopSearching">> >>
  /\ timers' = ClearTimeout(timers, timeoutId)
  /\ NoBusEvent
  /\ UNCHANGED <<ctlVars, domVars, valVars>>

\* 'blur' on cartRuleSearchInput: () => this.cartRuleManager.stopSearching()
stopSearching ==
  DomCalls("blur cartRuleSearchInput", << <<"cartRuleManager.stopSearching">> >>)

\* the value of a search input changes without an 'input' event
\* (a script sets it: .val(x) raises no event)
SetInputValue(input, value) ==
  /\ inputVal[input] # value
  /\ inputVal' = [inputVal EXCEPT ![input] = value]
  /\ event' = ""
  /\ calls' = <<>>
  /\ NoBusEvent
  /\ UNCHANGED <<ctlVars, timers, currencySelect, languageSelect, histVars,
                 pageHist, valVars>>

InitDebounce ==
  /\ InitPage
  /\ vAddresses = <<>>
  /\ vArg = <<>>
  /\ vResult = FALSE
  /\ vpc = "idle"

\* ---- the debounced inputs under a clock --------------------------------------
\* bookkeeping of an 'input' event on a debounced input: what it was, what it
\* cancelled and how long after the event before it, and how many events in a
\* row have now come on this one input, each less than Delay after the one
\* before (0 once the row has mixed inputs)
NoteInputEvent(input, value) ==
  /\ lastEvt' = [input |-> input, value |-> value]
  /\ sinceLast' = 0
  /\ nDisp' = 0
  /\ cancelled' = IF \E t \in timers : t.id = timeoutId
                  THEN [fn |-> (CHOOSE t \in timers : t.id = timeoutId).cb.fn,
                        after |-> sinceLast]
                  ELSE NoneCancelled
  /\ burst' = IF lastEvt = NoEvt \/ sinceLast >= Delay THEN 1
              ELSE IF lastEvt.input = input /\ burst > 0
                   THEN (IF burst < MaxBurst THEN burst + 1 ELSE burst)
                   ELSE 0
  /\ stopped' = FALSE
  /\ UNCHANGED <<selecting, pageHist>>

\* bookkeeping of a timer callback
NoteDispatch ==
  /\ nDisp' = IF nDisp < 2 THEN nDisp + 1 ELSE nDisp
  /\ UNCHANGED <<lastEvt, sinceLast, cancelled, burst, stopped, selecting,
                 pageHist>>

\* bookkeeping of a tick of length d
NoteTime(d) ==
  /\ sinceLast' = IF sinceLast + Elapsed(d) > Delay THEN Delay + 1
                  ELSE sinceLast + Elapsed(d)
  /\ UNCHANGED <<lastEvt, nDisp, cancelled, burst, stopped, selecting,
                 pageHist>>

\* bookkeeping of a blur of the cart rule search input
NoteBlur ==
  /\ stopped' = TRUE
  /\ UNCHANGED <<lastEvt, sinceLast, nDisp, cancelled, burst, selecting,
                 pageHist>>

NextDebounce ==
  \/ \E v \in Phrases : _initCustomerSearch(v) /\ NoteInputEvent("customer", v)
  \/ \E v \in Phrases : _initCartRuleSearch(v) /\ NoteInputEvent("cartRule", v)
  \/ \E v \in Phrases : _initProductSearch(v) /\ NoteInputEvent("product", v)
  \/ TimerFire /\ NoteDispatch
  \/ Tick(TimeStep) /\ NoteTime(TimeStep)
  \/ stopSearching /\ NoteBlur
  \/ \E i \in Inputs, v \in Phrases : SetInputValue(i, v)

SpecDebounce == InitDebounce /\ [][NextDebounce]_vars

\* ---- event payloads and DOM event data ------------------------------------
CartIds == {1, 2}
CustomerIds == {1, 2}
OrderIds == {5}
\* values of the delivery and of the invoice address select
DeliveryAddressIds == {7}
InvoiceAddressIds == {8}
CartRuleIds == {9}
FieldValues == {"1", "2"}
Messages == {"m1", "m2"}

\* address arrays of the published carts: none, one role only, both roles
PageAddressLists ==
  { <<>>,
    <<[delivery |-> "true", invoice |-> "false"]>>,
    <<[delivery |-> "false", invoice |-> "true"],
      [delivery |-> "true", invoice |-> "false"]>> }

ProductLists == {<<>>, <<"product">>}

\* the cart info published with a cart event; the currency and language ids
\* are kept apart from the cart id and from each other
CartInfo(c, addresses, products) ==
  [cartId |-> c, addresses |-> addresses, shipping |-> "shipping",
   products |-> products, cartRules |-> "cartRules",
   currencyId |-> c + 2, langId |-> c + 4]

CartInfos ==
  {CartInfo(c, a, p) : c \in CartIds, a \in PageAddressLists, p \in ProductLists}

CurrencyIds == {ci.currencyId : ci \in CartInfos}
LangIds == {ci.langId : ci \in CartInfos}

\* the jqXHR published with cartCurrencyChangeFailed
Responses == {[responseJSON |-> [message |-> m]] : m \in Messages}

\* data attributes of a listed product row
ProductRows == {[productId |-> 1, attributeId |-> 2, customizationId |-> 3]}

\* ---- DOM handlers bound in _initListeners / _listenForCartEdit ---------------
\* a handler that only calls collaborators, on the page, where the history
\* of the debounced inputs is not kept
DomHandler(name, made) ==
  /\ DomCalls(name, made)
  /\ NotePage
  /\ UNCHANGED histVars

\* _initCustomerSelect: id is what customerManager.selectCustomer(event) returns
_initCustomerSelect(id) ==
  /\ event' = "click chooseCustomerBtn"
  /\ customerId' = id
  /\ calls' = << <<"customerManager.selectCustomer", "returns", id>>,
                 <<"cartProvider.loadEmptyCart", id>> >>
  /\ NoBusEvent
  /\ NotePage
  /\ UNCHANGED <<cartId, timeoutId, timers, domVars, histVars, valVars>>

\* _initCartSelect: id is the button's data-cart-id
_initCartSelect(id) ==
  DomHandler("click useCartBtn", << <<"cartProvider.getCart", id>> >>)

\* _initDuplicateOrderCart: id is the button's data-order-id
_initDuplicateOrderCart(id) ==
  DomHandler("click useOrderBtn", << <<"cartProvider.duplicateOrderCart", id>> >>)

\* 'blur' on cartRuleSearchInput, on the page
BlurCartRuleSearch == stopSearching /\ NotePage /\ UNCHANGED histVars

\* what the browser does with a mousedown outside the focused search input,
\* made being the calls of its listener: unless the listener prevented the
\* default action the input loses the focus, and its blur listener runs
MouseDownDefault(made) ==
  IF \E k \in 1..Len(made) : made[k] = <<"event.preventDefault">>
  THEN made
  ELSE made \o << <<"cartRuleManager.stopSearching">> >>

\* (mutant) the listener does not prevent the default action
foundCartRuleMouseDownNoPrevent(cartRuleId) ==
  DomCalls("mousedown foundCartRuleListItem",
           MouseDownDefault(
             << <<"cartRuleManager.addCartRuleToCart", cartRuleId, cartId>> >>))

\* 'mousedown' on a found cart rule
foundCartRuleMouseDown(cartRuleId) ==
  DomCalls("mousedown foundCartRuleListItem",
           MouseDownDefault(
             << <<"event.preventDefault">>,
                <<"cartRuleManager.addCartRuleToCart", cartRuleId, cartId>> >>))

\* 'click' on a found cart rule: $(cartRuleSearchInput).blur() runs the blur
\* listener
foundCartRuleClick ==
  DomCalls("click foundCartRuleListItem",
           << <<"cartRuleSearchInput.blur">>,
              <<"cartRuleManager.stopSearching">> >>)

\* the two listeners of _addCartRuleToCart, on the page
_addCartRuleToCart(cartRuleId) ==
  foundCartRuleMouseDown(cartRuleId) /\ NotePage /\ UNCHANGED histVars

CartRuleItemClick == foundCartRuleClick /\ NotePage /\ UNCHANGED histVars

\* (mutant) the two arguments are passed in the wrong order
_removeCartRuleFromCartSwapped(cartRuleId) ==
  DomHandler("click cartRuleDeleteBtn",
             << <<"cartRuleManager.removeCartRuleFromCart", cartId, cartRuleId>> >>)

\* _removeCartRuleFromCart
_removeCartRuleFromCart(cartRuleId) ==
  DomHandler("click cartRuleDeleteBtn",
             << <<"cartRuleManager.removeCartRuleFromCart", cartRuleId, cartId>> >>)

\* 'change' on deliveryOptionSelect
changeDeliveryOption(value) ==
  DomHandler("change deliveryOptionSelect",
             << <<"cartEditor.changeDeliveryOption", cartId, value>> >>)

\* 'change' on freeShippingSwitch
setFreeShipping(value) ==
  DomHandler("change freeShippingSwitch",
             << <<"cartEditor.setFreeShipping", cartId, value>> >>)

\* 'click' on addToCartButton
addProductToCart ==
  DomHandler("click addToCartButton",
             << <<"productManager.addProductToCart", cartId>> >>)

\* 'change' on cartCurrencySelect: the user has picked value in the select
changeCartCurrency(value) ==
  /\ event' = "change cartCurrencySelect"
  /\ currencySelect' = value
  /\ calls' = << <<"cartEditor.changeCartCurrency", cartId, value>> >>
  /\ NoBusEvent
  /\ NotePage
  /\ UNCHANGED <<ctlVars, timers, inputVal, languageSelect, histVars, valVars>>

\* 'change' on cartLanguageSelect: the user has picked value in the select
changeCartLanguage(value) ==
  /\ event' = "change cartLanguageSelect"
  /\ languageSelect' = value
  /\ calls' = << <<"cartEditor.changeCartLanguage", cartId, value>> >>
  /\ NoBusEvent
  /\ NotePage
  /\ UNCHANGED <<ctlVars, timers, inputVal, currencySelect, histVars, valVars>>

\* 'click' on sendProcessOrderEmailBtn
sendProcessOrderEmail ==
  DomHandler("click sendProcessOrderEmailBtn",
             << <<"summaryManager.sendProcessOrderEmail", cartId>> >>)

\* _initProductChangePrice
_initProductChangePrice(row, price) ==
  DomHandler("change listedProductUnitPriceInput",
             << <<"productManager.changeProductPrice", cartId, customerId,
                  [productId |-> row.productId, attributeId |-> row.attributeId,
                   customizationId |-> row.customizationId, price |-> price]>> >>)

\* _initProductChangeQty
_initProductChangeQty(row, qty) ==
  DomHandler("change listedProductQtyInput",
             << <<"productManager.changeProductQty", cartId,
                  [productId |-> row.productId, attributeId |-> row.attributeId,
                   customizationId |-> row.customizationId, newQty |-> qty]>> >>)

\* _initProductRemoveFromCart
_initProductRemoveFromCart(row) ==
  DomHandler("click productRemoveBtn",
             << <<"productManager.removeProductFromCart", cartId,
                  [productId |-> row.productId, attributeId |-> row.attributeId,
                   customizationId |-> row.customizationId]>> >>)

\* the call _changeCartAddresses makes for cart cid; d and i are the values of
\* the delivery and invoice address selects
_changeCartAddresses(cid, d, i) ==
  <<"cartEditor.changeCartAddresses", cid,
    [deliveryAddressId |-> d, invoiceAddressId |-> i]>>

\* 'change' on addressSelect
AddressSelectChange(d, i) ==
  DomHandler("change addressSelect", <<_changeCartAddresses(cartId, d, i)>>)

\* ---- EventEmitter handlers ----------------------------------------------------
\* (mutant) rendering the cart also cleans the cart block alerts
_renderCartInfoCleansAlerts(cartInfo) ==
  << <<"productRenderer.cleanCartBlockAlerts">>,
     <<"addressesRenderer.render", cartInfo.addresses>>,
     <<"cartRulesRenderer.renderCartRulesBlock", cartInfo.cartRules,
       Len(cartInfo.products) = 0>>,
     <<"shippingRenderer.render", cartInfo.shipping, Len(cartInfo.products) = 0>>,
     <<"productRenderer.renderList", cartInfo.products>>,
     <<"summaryRenderer.render", cartInfo>>,
     <<"cartBlock.removeClass", "d-none">> >>

\* the calls of _renderCartInfo, in order (the two preselections, which change
\* the selects, are made by the handler that renders)
_renderCartInfo(cartInfo) ==
  << <<"addressesRenderer.render", cartInfo.addresses>>,
     <<"cartRulesRenderer.renderCartRulesBlock", cartInfo.cartRules,
       Len(cartInfo.products) = 0>>,
     <<"shippingRenderer.render", cartInfo.shipping, Len(cartInfo.products) = 0>>,
     <<"productRenderer.renderList", cartInfo.products>>,
     <<"summaryRenderer.render", cartInfo>>,
     <<"cartBlock.removeClass", "d-none">> >>

\* $(createOrderMap.cartCurrencySelect).val(currencyId)
_preselectCartCurrency(currencyId) == currencySelect' = currencyId

\* $(createOrderMap.cartLanguageSelect).val(langId)
_preselectCartLanguage(langId) == languageSelect' = langId

\* a handler of a cart event: the payload object is handed to it and is what
\* it is when the handler returns
BusHandler(name, cartInfo, after, made) ==
  /\ event' = name
  /\ published' = cartInfo
  /\ payload' = after
  /\ calls' = made
  /\ NotePage

\* (mutant) the assignment is written the wrong way round:
\* cartInfo.cartId = this.cartId
_onCartLoadedReversed(cartInfo, d, i) ==
  LET after == [cartInfo EXCEPT !.cartId = cartId]
  IN /\ _preselectCartCurrency(after.currencyId)
     /\ _preselectCartLanguage(after.langId)
     /\ BusHandler("cartLoaded", cartInfo, after,
          _renderCartInfo(after)
          \o (IF Len(after.addresses) # 0
                 /\ ~validateSelectedAddresses(after.addresses)
              THEN <<_changeCartAddresses(cartId, d, i)>>
              ELSE <<>>)
          \o << <<"customerManager.loadCustomerCarts", cartId>>,
                <<"customerManager.loadCustomerOrders">> >>)
     /\ UNCHANGED <<ctlVars, timers, inputVal, histVars, valVars>>

\* (mutant) the test for an empty address list is missing
_onCartLoadedNoLengthTest(cartInfo, d, i) ==
  /\ cartId' = cartInfo.cartId
  /\ _preselectCartCurrency(cartInfo.currencyId)
  /\ _preselectCartLanguage(cartInfo.langId)
  /\ BusHandler("cartLoaded", cartInfo, cartInfo,
       _renderCartInfo(cartInfo)
       \o (IF ~validateSelectedAddresses(cartInfo.addresses)
           THEN <<_changeCartAddresses(cartId', d, i)>>
           ELSE <<>>)
       \o << <<"customerManager.loadCustomerCarts", cartId'>>,
             <<"customerManager.loadCustomerOrders">> >>)
  /\ UNCHANGED <<customerId, timeoutId, timers, inputVal, histVars, valVars>>

\* cartLoaded; d and i are the values the address selects hold when
\* _changeCartAddresses reads them
_onCartLoaded(cartInfo, d, i) ==
  /\ cartId' = cartInfo.cartId
  /\ _preselectCartCurrency(cartInfo.currencyId)
  /\ _preselectCartLanguage(cartInfo.langId)
  /\ BusHandler("cartLoaded", cartInfo, cartInfo,
       _renderCartInfo(cartInfo)
       \o (IF Len(cartInfo.addresses) # 0
              /\ ~validateSelectedAddresses(cartInfo.addresses)
           THEN <<_changeCartAddresses(cartId', d, i)>>
           ELSE <<>>)
       \o << <<"customerManager.loadCustomerCarts", cartId'>>,
             <<"customerManager.loadCustomerOrders">> >>)
  /\ UNCHANGED <<customerId, timeoutId, timers, inputVal, histVars, valVars>>

\* (mutant) the shipping renderer is told the cart has products when it has none
_onCartAddressesChangedFlag(cartInfo) ==
  /\ BusHandler("cartAddressesChanged", cartInfo, cartInfo,
       << <<"addressesRenderer.render", cartInfo.addresses>>,
          <<"shippingRenderer.render", cartInfo.shipping,
            Len(cartInfo.products) # 0>>,
          <<"summaryRenderer.render", cartInfo>> >>)
  /\ UNCHANGED <<ctlVars, timers, domVars, histVars, valVars>>

\* (mutant) the handler repairs the addresses as the cartLoaded handler does
_onCartAddressesChangedRepairs(cartInfo) ==
  /\ BusHandler("cartAddressesChanged", cartInfo, cartInfo,
       << <<"addressesRenderer.render", cartInfo.addresses>>,
          <<"shippingRenderer.render", cartInfo.shipping,
            Len(cartInfo.products) = 0>>,
          <<"summaryRenderer.render", cartInfo>> >>
       \o (IF Len(cartInfo.addresses) # 0
              /\ ~validateSelectedAddresses(cartInfo.addresses)
           THEN <<_changeCartAddresses(cartId,
                    CHOOSE d \in DeliveryAddressIds : TRUE,
                    CHOOSE i \in InvoiceAddressIds : TRUE)>>
           ELSE <<>>))
  /\ UNCHANGED <<ctlVars, timers, domVars, histVars, valVars>>

\* cartAddressesChanged
_onCartAddressesChanged(cartInfo) ==
  /\ BusHandler("cartAddressesChanged", cartInfo, cartInfo,
       << <<"addressesRenderer.render", cartInfo.addresses>>,
          <<"shippingRenderer.render", cartInfo.shipping,
            Len(cartInfo.products) = 0>>,
          <<"summaryRenderer.render", cartInfo>> >>)
  /\ UNCHANGED <<ctlVars, timers, domVars, histVars, valVars>>

\* cartDeliveryOptionChanged
_onDeliveryOptionChanged(cartInfo) ==
  /\ BusHandler("cartDeliveryOptionChanged", cartInfo, cartInfo,
       << <<"shippingRenderer.render", cartInfo.shipping,
            Len(cartInfo.products) = 0>>,
          <<"summaryRenderer.render", cartInfo>> >>)
  /\ UNCHANGED <<ctlVars, timers, domVars, histVars, valVars>>

\* cartFreeShippingSet
_onFreeShippingChanged(cartInfo) ==
  /\ BusHandler("cartFreeShippingSet", cartInfo, cartInfo,
       << <<"cartRulesRenderer.renderCartRulesBlock", cartInfo.cartRules,
            Len(cartInfo.products) = 0>>,
          <<"shippingRenderer.render", cartInfo.shipping,
            Len(cartInfo.products) = 0>>,
          <<"summaryRenderer.render", cartInfo>> >>)
  /\ UNCHANGED <<ctlVars, timers, domVars, histVars, valVars>>

\* cartLanguageChanged
_onCartLanguageChanged(cartInfo) ==
  /\ _preselectCartLanguage(cartInfo.langId)
  /\ BusHandler("cartLanguageChanged", cartInfo, cartInfo, <<>>)
  /\ UNCHANGED <<ctlVars, timers, inputVal, currencySelect, histVars, valVars>>

\* cartCurrencyChanged (on success)
_onCartCurrencyChanged(cartInfo) ==
  /\ _preselectCartCurrency(cartInfo.currencyId)
  /\ BusHandler("cartCurrencyChanged", cartInfo, cartInfo,
       << <<"productRenderer.cleanCartBlockAlerts">> >>)
  /\ UNCHANGED <<ctlVars, timers, inputVal, languageSelect, histVars, valVars>>

\* (mutant) the failure handler also preselects response.currencyId, which
\* the response does not have
_onCartCurrencyChangeFailedPreselects(response) ==
  /\ _preselectCartCurrency(NULL)
  /\ BusHandler("cartCurrencyChangeFailed", response, response,
       << <<"productRenderer.renderCartBlockErrorAlert",
            response.responseJSON.message>> >>)
  /\ UNCHANGED <<ctlVars, timers, inputVal, languageSelect, histVars, valVars>>

\* cartCurrencyChangeFailed (on failure)
_onCartCurrencyChangeFailed(response) ==
  /\ BusHandler("cartCurrencyChangeFailed", response, response,
       << <<"productRenderer.renderCartBlockErrorAlert",
            response.responseJSON.message>> >>)
  /\ UNCHANGED <<ctlVars, timers, domVars, histVars, valVars>>

\* ---- the page: every listener the constructor registers ------------------------
Init == InitDebounce

DomEvent ==
  \/ \E id \in CustomerIds : _initCustomerSelect(id)
  \/ \E id \in CartIds : _initCartSelect(id)
  \/ \E id \in OrderIds : _initDuplicateOrderCart(id)
  \/ BlurCartRuleSearch
  \/ \E r \in CartRuleIds : _addCartRuleToCart(r)
  \/ CartRuleItemClick
  \/ \E r \in CartRuleIds : _removeCartRuleFromCart(r)
  \/ \E v \in FieldValues : changeDeliveryOption(v)
  \/ \E v \in FieldValues : setFreeShipping(v)
  \/ addProductToCart
  \/ \E v \in CurrencyIds : changeCartCurrency(v)
  \/ \E v \in LangIds : changeCartLanguage(v)
  \/ sendProcessOrderEmail
  \/ \E r \in ProductRows, v \in FieldValues : _initProductChangePrice(r, v)
  \/ \E r \in ProductRows, v \in FieldValues : _initProductChangeQty(r, v)
  \/ \E r \in ProductRows : _initProductRemoveFromCart(r)
  \/ \E d \in DeliveryAddressIds, i \in InvoiceAddressIds :
       AddressSelectChange(d, i)

BusEvent ==
  \/ \E ci \in CartInfos, d \in DeliveryAddressIds, i \in InvoiceAddressIds :
       _onCartLoaded(ci, d, i)
  \/ \E ci \in CartInfos : _onCartAddressesChanged(ci)
  \/ \E ci \in CartInfos : _onDeliveryOptionChanged(ci)
  \/ \E ci \in CartInfos : _onFreeShippingChanged(ci)
  \/ \E ci \in CartInfos : _onCartLanguageChanged(ci)
  \/ \E ci \in CartInfos : _onCartCurrencyChanged(ci)
  \/ \E r \in Responses : _onCartCurrencyChangeFailed(r)

\* the debounced inputs; here a tick is a whole delay and the history of the
\* clocked specification is not kept
TimerEvent ==
  \/ \E v \in PagePhrases : _initCustomerSearch(v) /\ UNCHANGED histVars /\ NotePage
  \/ \E v \in PagePhrases : _initCartRuleSearch(v) /\ UNCHANGED histVars /\ NotePage
  \/ \E v \in PagePhrases : _initProductSearch(v) /\ UNCHANGED histVars /\ NotePage
  \/ TimerFire /\ UNCHANGED histVars /\ NotePage
  \/ Tick(Delay) /\ UNCHANGED histVars /\ NotePage

Next == DomEvent \/ BusEvent \/ TimerEvent

Spec == Init /\ [][Next]_vars

\* ---- selecting a found cart rule ---------------------------------------------
\* bookkeeping of a mousedown on a found cart rule
NoteMouseDown(cartRuleId) ==
  /\ selecting' = [rule |-> cartRuleId, clicked |-> FALSE]
  /\ NotePage
  /\ UNCHANGED <<lastEvt, sinceLast, nDisp, cancelled, burst, stopped>>

\* the pointer's click comes after its mousedown on the same item
NoteClick ==
  /\ selecting.rule # NULL
  /\ ~selecting.clicked
  /\ selecting' = [selecting EXCEPT !.clicked = TRUE]
  /\ NotePage
  /\ UNCHANGED <<lastEvt, sinceLast, nDisp, cancelled, burst, stopped>>

\* the user searches for cart rules and picks found ones with the mouse while
\* carts are loaded
NextSelect ==
  \/ \E v \in PagePhrases :
       _initCartRuleSearch(v) /\ NotePage /\ UNCHANGED histVars
  \/ TimerFire /\ NotePage /\ UNCHANGED histVars
  \/ Tick(Delay) /\ NotePage /\ UNCHANGED histVars
  \/ \E r \in CartRuleIds : foundCartRuleMouseDown(r) /\ NoteMouseDown(r)
  \/ foundCartRuleClick /\ NoteClick
  \/ BlurCartRuleSearch
  \/ \E ci \in CartInfos, d \in DeliveryAddressIds, i \in InvoiceAddressIds :
       _onCartLoaded(ci, d, i)

SpecSelect == InitDebounce /\ [][NextSelect]_vars

\* ---- the address repair chain ------------------------------------------------
\* carts whose addresses are selected or not in every combination
RepairAddress == [delivery : {"true", "false"}, invoice : {"true", "false"}]

RepairCartInfos ==
  {CartInfo(c, a, p) : c \in CartIds,
                       a \in SeqsUpTo(RepairAddress, MaxRepairLen),
                       p \in ProductLists}

\* the changeCartAddresses calls of the last handler: each is owed one
\* cartAddressesChanged event by the cart editor
Owed ==
  Cardinality({k \in 1..Len(calls) :
                 calls[k][1] = "cartEditor.changeCartAddresses"})

\* a cartLoaded event arrives when no answer is owed: it starts a chain
RepairLoad ==
  /\ Owed = 0
  /\ \E ci \in RepairCartInfos, d \in DeliveryAddressIds, i \in InvoiceAddressIds :
       _onCartLoaded(ci, d, i)

\* the cart editor answers a changeCartAddresses call: cartAddressesChanged is
\* published, with whatever addresses the server holds
RepairAnswer ==
  /\ Owed > 0
  /\ \E ci \in RepairCartInfos : _onCartAddressesChanged(ci)

NextRepair == RepairLoad \/ RepairAnswer

\* every call is answered
SpecRepair == InitDebounce /\ [][NextRepair]_vars /\ WF_vars(RepairAnswer)

\* ---- harness for the static validator ---------------------------------------
InitValidate ==
  /\ InitPage
  /\ vAddresses \in AddressLists
  /\ vArg = <<>>
  /\ vResult = FALSE
  /\ vpc = "ready"

\* CreateOrderPage.validateSelectedAddresses(vAddresses)
Validate ==
  /\ vpc = "ready"
  /\ vArg' = vAddresses
  /\ vAddresses' = ValidateRun(vAddresses).addresses
  /\ vResult' = validateSelectedAddresses(vAddresses)
  /\ vpc' = "done"
  /\ UNCHANGED <<ctlVars, timers, domVars, event, calls, busVars, histVars,
                 pageHist>>

NextValidate == Validate

SpecValidate == InitValidate /\ [][NextValidate]_vars

\* ---- claims about the validator --------------------------------------------
HasDelivery(a) == \E i \in 1..Len(a) : Truthy(a[i].delivery)
HasInvoice(a) == \E i \in 1..Len(a) : Truthy(a[i].invoice)

\* C1: validateSelectedAddresses returns true exactly when the array holds a
\* record with a truthy delivery flag and a record (the same or another) with
\* a truthy invoice flag; false for the empty array or when a role is absent.
C1_ValidateIff ==
  vpc = "done" => (vResult <=> (HasDelivery(vArg) /\ HasInvoice(vArg)))

\* the spec's example: delivery and invoice carried by two different records
C1_Witness ==
  /\ vpc = "done"
  /\ vArg = <<[delivery |-> "true", invoice |-> "false"],
              [delivery |-> "false", invoice |-> "true"]>>
  /\ vResult = TRUE

Perms(n) == {p \in [1..n -> 1..n] : \A i, j \in 1..n : p[i] = p[j] => i = j}
Reorder(a, p) == [i \in 1..Len(a) |-> a[p[i]]]

\* C9: the result is the same for every permutation of the array, the call
\* leaves the address records as they were and changes no controller state.
C9_PureOrderFree ==
  vpc = "done" =>
    /\ \A p \in Perms(Len(vArg)) :
         validateSelectedAddresses(Reorder(vArg, p)) = vResult
    /\ vAddresses = vArg
    /\ cartId = NULL /\ customerId = NULL /\ timeoutId = NULL
    /\ timers = {} /\ calls = <<>>

\* a call on an array whose result depends on records in different positions
C9_Witness ==
  /\ vpc = "done"
  /\ Len(vArg) = 3
  /\ vArg[1] = [delivery |-> "false", invoice |-> "true"]
  /\ vArg[2] = [delivery |-> "false", invoice |-> "false"]
  /\ vArg[3] = [delivery |-> "true", invoice |-> "false"]
  /\ vResult = TRUE

\* ---- claims about the debounced inputs ---------------------------------------
SearchFn(input) ==
  CASE input = "customer" -> "customerManager.search"
    [] input = "product" -> "productManager.search"
    [] input = "cartRule" -> "cartRuleManager.search"
    [] OTHER -> ""

\* the last step ran a timer callback
Dispatched == event = "timeout" /\ Len(calls) = 1

\* C2: events in a row on one debounced input, each less than Delay after the
\* one before, give exactly one search: it is pending until Delay after the
\* last event, runs then, and carries the value of that last event.
C2_OneDispatchLastValue ==
  burst >= 1 =>
    /\ nDisp <= 1
    /\ nDisp = 0 => \E t \in timers : t.remaining = Delay - sinceLast
    /\ Dispatched =>
         /\ sinceLast = Delay
         /\ calls[1] = <<SearchFn(lastEvt.input), lastEvt.value>>

\* C3: the three inputs share one timer: at most one dispatch is pending, it
\* is the one the last input event scheduled (whatever an earlier event on
\* another input scheduled is gone), and the search that runs is the one of
\* the last event's input, once, Delay after that event.
C3_SharedTimer ==
  /\ Cardinality(timers) <= 1
  /\ \A t \in timers :
       /\ t.id = timeoutId
       /\ t.cb.fn = SearchFn(lastEvt.input)
       /\ t.remaining = Delay - sinceLast
  /\ nDisp <= 1
  /\ Dispatched =>
       /\ calls[1][1] = SearchFn(lastEvt.input)
       /\ sinceLast = Delay

\* the spec's example: a product keystroke, a cart-rule keystroke 50 later
\* that cancels the product search, and the cart-rule search 300 after that
C3_Witness ==
  /\ cancelled = [fn |-> "productManager.search", after |-> 50]
  /\ lastEvt.input = "cartRule"
  /\ Dispatched
  /\ calls[1][1] = "cartRuleManager.search"
  /\ sinceLast = Delay
  /\ nDisp = 1

\* C4: for each of the three inputs the phrase searched for is the value the
\* input had at the input event that scheduled the search, whatever the input
\* holds when the timer runs.
C4_PhraseOfEvent ==
  Dispatched => calls[1][2] = lastEvt.value

\* ---- claims about the page's handlers ------------------------------------------
BusEventNames ==
  {"cartLoaded", "cartAddressesChanged", "cartDeliveryOptionChanged",
   "cartFreeShippingSet", "cartCurrencyChanged", "cartCurrencyChangeFailed",
   "cartLanguageChanged"}

DebouncedEventNames ==
  {"input customerSearchInput", "input productSearch", "input cartRuleSearchInput"}

\* how many of the calls made are c
Times(c) == Cardinality({k \in 1..Len(calls) : calls[k] = c})

\* C5: on cartAddressesChanged the addresses, shipping and summary renderers
\* are each called exactly once, with the payload's addresses, its shipping
\* and the flag "no products", and the whole payload; nothing else is called.
C5_AddressesChangedRenders ==
  event = "cartAddressesChanged" =>
    /\ Len(calls) = 3
    /\ Times(<<"addressesRenderer.render", published.addresses>>) = 1
    /\ Times(<<"shippingRenderer.render", published.shipping,
               Len(published.products) = 0>>) = 1
    /\ Times(<<"summaryRenderer.render", published>>) = 1

\* the event for a cart with addresses and no products
C5_Witness ==
  /\ event = "cartAddressesChanged"
  /\ Len(published.addresses) = 2
  /\ published.products = <<>>
  /\ Len(calls) = 3

\* C6: cartId changes only in the cartLoaded handler, to the payload's cartId;
\* customerId only in the customer-select click handler, to the id
\* selectCustomer returned; the timer handle only in the three debounced
\* input handlers.  Every other handler leaves the three unchanged.
C6_StateOwnedByHandlers ==
  [][ /\ cartId' # cartId => event' = "cartLoaded"
      /\ event' = "cartLoaded" => cartId' = published'.cartId
      /\ customerId' # customerId => event' = "click chooseCustomerBtn"
      /\ event' = "click chooseCustomerBtn" => customerId' = calls'[1][3]
      /\ timeoutId' # timeoutId => event' \in DebouncedEventNames
    ]_vars

\* a timer callback has run on a page whose three fields are all set
C6_Witness ==
  /\ event = "timeout"
  /\ cartId = 2
  /\ customerId = 2
  /\ timeoutId # NULL

\* C7: on cartCurrencyChangeFailed exactly one cart-block error alert is
\* rendered, with the response's message, and nothing else happens: cartId,
\* customerId, the timer handle and the currency select keep their values.
C7_CurrencyFailureOnlyAlerts ==
  [][ event' = "cartCurrencyChangeFailed" =>
        /\ calls' = << <<"productRenderer.renderCartBlockErrorAlert",
                         published'.responseJSON.message>> >>
        /\ UNCHANGED <<cartId, customerId, timeoutId, timers, currencySelect,
                       languageSelect, inputVal>>
    ]_vars

\* the failure arrives on a page with a cart, a customer, a currency and a
\* pending search
C7_Witness ==
  /\ event = "cartCurrencyChangeFailed"
  /\ published.responseJSON.message = "m2"
  /\ cartId # NULL
  /\ customerId # NULL
  /\ currencySelect # NULL
  /\ timers # {}

\* C8: no EventEmitter handler changes the payload it is given: when the
\* handler has returned the payload is what was published.
C8_PayloadNotMutated ==
  event \in BusEventNames => payload = published

\* a cart published for another cart id than the one the page holds
C8_Witness ==
  /\ event = "cartLoaded"
  /\ published.cartId = 2
  /\ Len(published.addresses) = 2
  /\ customerId # NULL

\* C10: the cartLoaded handler sets cartId to the payload's, renders the cart
\* info, calls changeCartAddresses once with the new cartId exactly when the
\* addresses are non-empty and not valid, then loadCustomerCarts(new cartId),
\* then loadCustomerOrders.
C10_CartLoadedSequence ==
  event = "cartLoaded" =>
    LET repair == /\ Len(published.addresses) # 0
                  /\ ~validateSelectedAddresses(published.addresses)
        n == Len(calls)
    IN /\ cartId = published.cartId
       /\ n = IF repair THEN 9 ELSE 8
       /\ [k \in 1..6 |-> calls[k][1]] =
            <<"addressesRenderer.render", "cartRulesRenderer.renderCartRulesBlock",
              "shippingRenderer.render", "productRenderer.renderList",
              "summaryRenderer.render", "cartBlock.removeClass">>
       /\ calls[5][2] = published
       /\ repair => /\ calls[7][1] = "cartEditor.changeCartAddresses"
                    /\ calls[7][2] = published.cartId
       /\ Cardinality({k \in 1..n : calls[k][1] = "cartEditor.changeCartAddresses"})
            = IF repair THEN 1 ELSE 0
       /\ calls[n - 1] = <<"customerManager.loadCustomerCarts", published.cartId>>
       /\ calls[n] = <<"customerManager.loadCustomerOrders">>

\* a cart with one address that has no invoice role: the repair call is made
C10_Witness ==
  /\ event = "cartLoaded"
  /\ Len(published.addresses) = 1
  /\ Len(calls) = 9
  /\ calls[7][1] = "cartEditor.changeCartAddresses"

\* ---- claims about the cart id the collaborators are given -----------------------
\* the cart-editing methods whose first argument is the cart id
CartIdFirst ==
  {"cartEditor.changeDeliveryOption", "cartEditor.setFreeShipping",
   "productManager.addProductToCart", "cartEditor.changeCartCurrency",
   "cartEditor.changeCartLanguage", "summaryManager.sendProcessOrderEmail",
   "cartEditor.changeCartAddresses", "productManager.removeProductFromCart",
   "productManager.changeProductPrice", "productManager.changeProductQty"}

\* the cart-editing methods whose second argument is the cart id
CartIdSecond ==
  {"cartRuleManager.addCartRuleToCart", "cartRuleManager.removeCartRuleFromCart"}

\* C11: every cart-editing call passes the cartId of the cartLoaded event
\* handled last, and null when none has been handled: the call is made all the
\* same.
C11_CallsPassLoadedCartId ==
  \A k \in 1..Len(calls) :
    /\ calls[k][1] \in CartIdFirst => calls[k][2] = loadedCartId
    /\ calls[k][1] \in CartIdSecond => calls[k][3] = loadedCartId

\* a product is added before any cart was loaded: the call is made with null
C11_Witness ==
  /\ event = "click addToCartButton"
  /\ loadedCartId = NULL
  /\ calls = << <<"productManager.addProductToCart", NULL>> >>

\* C12: whenever changeProductPrice is called for a loaded cart, the cartId it
\* passes was set by a cartLoaded event handled after the customer it passes
\* was selected.
C12_PriceChangeConsistent ==
  (event = "change listedProductUnitPriceInput" /\ loadedCartId # NULL) =>
    /\ calls[1][2] = loadedCartId
    /\ calls[1][3] = customerId
    /\ sinceSelect

\* ---- claims about the address repair ------------------------------------------
\* C13: the repair cannot loop: one cartLoaded event makes at most one
\* changeCartAddresses call, the cartAddressesChanged handler makes none
\* (valid addresses or not), so with one cartAddressesChanged event per call
\* the chain a cartLoaded event starts comes to an end.
C13_RepairTerminates ==
  /\ [](Owed <= 1)
  /\ [](event = "cartAddressesChanged" => Owed = 0)
  /\ (Owed > 0 ~> Owed = 0)

\* the answer to a repair still carries addresses that are not valid, and
\* nothing more is asked of the cart editor
C13_Witness ==
  /\ event = "cartAddressesChanged"
  /\ loadedCartId # NULL
  /\ Len(published.addresses) = 2
  /\ ~validateSelectedAddresses(published.addresses)
  /\ Owed = 0

\* ---- claims about the cart rule search ------------------------------------------
\* C14: a blur of the cart rule search input calls stopSearching and leaves
\* the shared timer alone: the search the last input event scheduled stays
\* pending until Delay after that event and runs then, stopSearching called or
\* not, unless another debounced input event comes first.
C14_BlurKeepsSearch ==
  /\ event = "blur cartRuleSearchInput" =>
        calls = << <<"cartRuleManager.stopSearching">> >>
  /\ (lastEvt # NoEvt /\ nDisp = 0) =>
        \E t \in timers : /\ t.id = timeoutId
                          /\ t.cb.fn = SearchFn(lastEvt.input)
                          /\ t.remaining = Delay - sinceLast
  /\ (Dispatched /\ stopped) =>
        /\ calls[1][1] = SearchFn(lastEvt.input)
        /\ sinceLast = Delay

\* a cart rule search runs although stopSearching was called after the
\* keystroke that scheduled it
C14_Witness ==
  /\ Dispatched
  /\ stopped
  /\ lastEvt.input = "cartRule"
  /\ calls[1] = <<"cartRuleManager.search", lastEvt.value>>

\* C15: picking a found cart rule with the mouse calls addCartRuleToCart once,
\* on the mousedown, with the rule and the current cartId; the mousedown's
\* default action is prevented, so the input is not blurred and stopSearching
\* not called then; the click that follows blurs the input, which calls
\* stopSearching, and adds nothing.
C15_SelectCartRule ==
  [][ /\ event' = "mousedown foundCartRuleListItem" =>
           calls' = << <<"event.preventDefault">>,
                       <<"cartRuleManager.addCartRuleToCart",
                         selecting'.rule, cartId>> >>
      /\ event' = "click foundCartRuleListItem" =>
           /\ selecting.rule # NULL
           /\ calls' = << <<"cartRuleSearchInput.blur">>,
                          <<"cartRuleManager.stopSearching">> >>
    ]_vars

\* the click of a selection made on a page with a loaded cart
C15_Witness ==
  /\ event = "click foundCartRuleListItem"
  /\ selecting = [rule |-> 9, clicked |-> TRUE]
  /\ cartId # NULL
  /\ Len(calls) = 2

====
